---- MODULE Spec2Model ----
(***************************************************************************)
(* MajikSubscription: the monthly capacity plan, the cost-of-subscription  *)
(* (COS) list, the rate, and the dirty-flag-gated finance snapshot.        *)
(*                                                                         *)
(* Strings are sequences of one-character strings, so that the regular     *)
(* expressions, the string comparison and the date conversions of the      *)
(* source are modelled by what they do.  An optional number (undefined,    *)
(* NaN, Invalid Date) is the empty sequence, a present one is <<n>>.       *)
(* A Date that is the first of a UTC month is the month count              *)
(* year * 12 + monthIndex.  Money is [amt |-> minor units, cur |-> code].  *)
(***************************************************************************)
EXTENDS Integers, Sequences, FiniteSets, TLC

VARIABLES
    rate,           \* this.rate / this.metadata.rate (one object)
    cos,            \* this.metadata.cos
    capacityPlan,   \* this.metadata.capacityPlan: [defined, items]
    finance,        \* this.metadata.finance (the cached snapshot)
    financeDirty,   \* this.financeDirty
    last_update,    \* this.last_update (clock reading of the last update)
    ident,          \* this.id, this.slug, this.name, this.timestamp
    tz,             \* the host's local time zone, fixed for a run
    lastOp,         \* the last call: its name and whether it returned (or threw)
    calls           \* the number of calls made so far

vars == <<rate, cos, capacityPlan, finance, financeDirty, last_update, ident, tz, lastOp, calls>>

\* ------------------------------------------------------------------------
\* Bounds of the model
\* ------------------------------------------------------------------------
MaxCalls == 3       \* behaviours of up to MaxCalls calls are explored

\* ------------------------------------------------------------------------
\* Optional numbers
\* ------------------------------------------------------------------------
NaN == <<>>
Some(n) == <<n>>
IsNaN(x) == x = <<>>
Val(x) == x[1]

Min2(a, b) == IF a <= b THEN a ELSE b

\* ------------------------------------------------------------------------
\* Strings
\* ------------------------------------------------------------------------
Digits == <<"0", "1", "2", "3", "4", "5", "6", "7", "8", "9">>

IsDigit(c) == \E i \in 1..10 : Digits[i] = c

DigitVal(c) == (CHOOSE i \in 1..10 : Digits[i] = c) - 1

\* UTF-16 code unit of the characters the model uses
Code(c) == IF IsDigit(c) THEN 48 + DigitVal(c)
           ELSE IF c = "-" THEN 45
           ELSE IF c = "T" THEN 84
           ELSE IF c = "Z" THEN 90
           ELSE IF c = ":" THEN 58
           ELSE 97

\* JavaScript's s < t on strings: by code unit, a proper prefix is smaller
StrLess(s, t) ==
    LET n == Min2(Len(s), Len(t))
        diff == {i \in 1..n : s[i] # t[i]}
    IN  IF diff = {} THEN Len(s) < Len(t)
        ELSE LET i == CHOOSE j \in diff : \A k \in diff : j <= k
             IN  Code(s[i]) < Code(t[i])

StrGreater(s, t) == StrLess(t, s)

AllDigits(s) == \A i \in 1..Len(s) : IsDigit(s[i])

\* decimal value of a string of digits
RECURSIVE DecVal(_)
DecVal(s) == IF s = <<>> THEN 0
             ELSE 10 * DecVal(SubSeq(s, 1, Len(s) - 1)) + DigitVal(s[Len(s)])

\* Number(s) for the strings of the model: "" is 0, digits are their decimal
\* value, anything else is NaN
ToNumber(s) == IF AllDigits(s) THEN Some(DecVal(s)) ELSE NaN

\* String(n) for n >= 0
RECURSIVE NumToStr(_)
NumToStr(n) == IF n < 10 THEN <<Digits[n + 1]>>
               ELSE NumToStr(n \div 10) \o <<Digits[(n % 10) + 1]>>

\* s.padStart(2, "0")
PadStart2(s) == IF Len(s) >= 2 THEN s ELSE IF Len(s) = 1 THEN <<"0">> \o s ELSE <<"0", "0">>

\* s.split("-"): the pieces between the hyphens
RECURSIVE SplitHyphen(_)
SplitHyphen(s) ==
    LET hy == {i \in 1..Len(s) : s[i] = "-"}
    IN  IF hy = {} THEN <<s>>
        ELSE LET i == CHOOSE j \in hy : \A k \in hy : j <= k
             IN  <<SubSeq(s, 1, i - 1)>> \o SplitHyphen(SubSeq(s, i + 1, Len(s)))

\* ------------------------------------------------------------------------
\* utils: month keys and dates
\* ------------------------------------------------------------------------

\* /^\d{4}-0[1-9]|1[0-2]$/.test(month): the alternation binds loosest, so the
\* pattern is (^\d{4}-0[1-9]) | (1[0-2]$)
isValidYYYYMM(month) ==
    \/ /\ Len(month) >= 7
       /\ \A i \in 1..4 : IsDigit(month[i])
       /\ month[5] = "-"
       /\ month[6] = "0"
       /\ IsDigit(month[7]) /\ month[7] # "0"
    \/ /\ Len(month) >= 2
       /\ month[Len(month) - 1] = "1"
       /\ month[Len(month)] \in {"0", "1", "2"}

\* Date.UTC(year, monthIndex, 1) as a month count: NaN if an argument is NaN,
\* a year 0..99 means 1900 + year, the month index carries into the year
DateUTC(year, monthIndex) ==
    IF IsNaN(year) \/ IsNaN(monthIndex) THEN NaN
    ELSE LET y == IF Val(year) >= 0 /\ Val(year) <= 99 THEN 1900 + Val(year) ELSE Val(year)
         IN  Some(y * 12 + Val(monthIndex))

\* getUTCFullYear / getUTCMonth of a valid date
UTCFullYear(d) == Val(d) \div 12
UTCMonth(d) == Val(d) % 12

\* const [year, month] = s.split("-").map(Number)
SplitYearMonth(s) ==
    LET parts == SplitHyphen(s)
    IN  [year |-> ToNumber(parts[1]),
         month |-> IF Len(parts) >= 2 THEN ToNumber(parts[2]) ELSE NaN]

MinusOne(x) == IF IsNaN(x) THEN NaN ELSE Some(Val(x) - 1)

yyyyMMToDate(yyyyMM) ==
    LET ym == SplitYearMonth(yyyyMM)
    IN  DateUTC(ym.year, MinusOne(ym.month))

\* `${year}-${month padded to 2}` from the UTC fields; the year is not padded
dateToYYYYMM(date) ==
    NumToStr(UTCFullYear(date)) \o <<"-">> \o PadStart2(NumToStr(UTCMonth(date) + 1))

\* monthsInPeriod: NaN when either key does not convert to a date
monthsInPeriod(earlier, later) ==
    LET start == yyyyMMToDate(earlier)
        end == yyyyMMToDate(later)
    IN  IF IsNaN(start) \/ IsNaN(end) THEN NaN
        ELSE Some((UTCFullYear(end) - UTCFullYear(start)) * 12
                  + (UTCMonth(end) - UTCMonth(start)) + 1)

\* /^\d{4}-\d{2}$/.test(s)
IsYYYYMMShape(s) ==
    /\ Len(s) = 7
    /\ \A i \in {1, 2, 3, 4, 6, 7} : IsDigit(s[i])
    /\ s[5] = "-"

\* new Date(s) for an ISO date "YYYY-MM-DD" or timestamp "YYYY-MM-DDTHH:MM:SSZ"
\* (both are read as UTC); every other string of the model is an Invalid Date
ParseISODate(s) ==
    IF /\ Len(s) \in {10, 20}
       /\ \A i \in {1, 2, 3, 4, 6, 7, 9, 10} : IsDigit(s[i])
       /\ s[5] = "-" /\ s[8] = "-"
       /\ Len(s) = 20 =>
            /\ s[11] = "T" /\ s[14] = ":" /\ s[17] = ":" /\ s[20] = "Z"
            /\ \A i \in {12, 13, 15, 16, 18, 19} : IsDigit(s[i])
            /\ DecVal(SubSeq(s, 12, 13)) <= 23
            /\ DecVal(SubSeq(s, 15, 16)) <= 59
            /\ DecVal(SubSeq(s, 18, 19)) <= 59
       /\ DecVal(SubSeq(s, 6, 7)) \in 1..12
       /\ DecVal(SubSeq(s, 9, 10)) \in 1..28
    THEN Some(DecVal(SubSeq(s, 1, 4)) * 12 + DecVal(SubSeq(s, 6, 7)) - 1)
    ELSE NaN


\* `if (!input)` -> first of the current UTC month; a YYYY-MM shaped string ->
\* Date.UTC(yyyy, mm - 1, 1); another string -> new Date(input), floored to
\* its UTC month; a Date -> floored to its UTC month.  NaN stands for the
\* thrown "Invalid startDate format".
\* input = [kind |-> "none" | "string" | "date", str |-> chars, date |-> date]
normalizeStartDate(input, now) ==
    IF input.kind = "none" \/ (input.kind = "string" /\ input.str = <<>>)
    THEN DateUTC(Some(UTCFullYear(now)), Some(UTCMonth(now)))
    ELSE IF input.kind = "string" /\ IsYYYYMMShape(input.str)
    THEN LET ym == SplitYearMonth(input.str)
         IN  DateUTC(ym.year, MinusOne(ym.month))
    ELSE IF input.kind = "string" /\ ~IsNaN(ParseISODate(input.str))
    THEN LET date == ParseISODate(input.str)
         IN  DateUTC(Some(UTCFullYear(date)), Some(UTCMonth(date)))
    ELSE IF input.kind = "date" /\ ~IsNaN(input.date)
    THEN DateUTC(Some(UTCFullYear(input.date)), Some(UTCMonth(input.date)))
    ELSE NaN

StrInput(s) == [kind |-> "string", str |-> s, date |-> NaN]
DateInput(d) == [kind |-> "date", str |-> <<>>, date |-> d]
NoInput == [kind |-> "none", str |-> <<>>, date |-> NaN]

\* offsetMonthsToYYYYMM(input, offsetMonths); NaN when normalizeStartDate throws
offsetMonthsToYYYYMM(input, offsetMonths) ==
    LET date == normalizeStartDate(StrInput(input), NaN)
    IN  IF IsNaN(date) THEN NaN
        ELSE Some(dateToYYYYMM(
                 DateUTC(Some(UTCFullYear(date)), Some(UTCMonth(date) + offsetMonths))))

\* ------------------------------------------------------------------------
\* Money (the external MajikMoney, by its documented contract: integer minor
\* units, every binary operation currency-checked).  <<>> is a thrown error.
\* ------------------------------------------------------------------------
Money(a, c) == [amt |-> a, cur |-> c]

\* MajikMoney.fromMajor for the two-decimal currencies of the model
FromMajor(major, c) == Money(major * 100, c)

FromMinor(minor, c) == Money(minor, c)

Threw(x) == x = <<>>

MoneyAdd(a, b) == IF a.cur # b.cur THEN <<>> ELSE <<Money(a.amt + b.amt, a.cur)>>

MoneySubtract(a, b) == IF a.cur # b.cur THEN <<>> ELSE <<Money(a.amt - b.amt, a.cur)>>

MoneyMultiply(a, n) == Money(a.amt * n, a.cur)

MoneyIsZero(a) == a.amt = 0

Abs(n) == IF n < 0 THEN -n ELSE n

RECURSIVE GCD(_, _)
GCD(a, b) == IF b = 0 THEN a ELSE GCD(b, a % b)

\* a.ratio(b) for b # 0: the quotient of the amounts, as a fraction in lowest
\* terms with a positive denominator
MoneyRatio(a, b) ==
    LET g == GCD(Abs(a.amt), Abs(b.amt))
        sgn == IF b.amt < 0 THEN -1 ELSE 1
    IN  <<(sgn * a.amt) \div g, (sgn * b.amt) \div g>>

RatioZero == <<0, 1>>
\* the ratio one half
RatioHalf == <<1, 2>>

RatioOne == <<1, 1>>

\* ------------------------------------------------------------------------
\* enums
\* ------------------------------------------------------------------------
PER_SUBSCRIBER == "Per Subscriber"
PER_ACCOUNT == "Per Account"
PER_USER == "Per User"
PER_MONTH == "Per Month"
MONTHLY == "Monthly"
YEARLY == "Yearly"
DEFAULT == "default"
DISTRIBUTE == "distribute"

\* ------------------------------------------------------------------------
\* utils: the empty finance snapshot
\* ------------------------------------------------------------------------
createZeroValueRatio(currencyCode) ==
    [value |-> FromMinor(0, currencyCode), marginRatio |-> RatioZero]

createEmptySubscriptionFinance(currencyCode) ==
    [revenue |-> [gross |-> createZeroValueRatio(currencyCode),
                  net |-> createZeroValueRatio(currencyCode)],
     income |-> [gross |-> createZeroValueRatio(currencyCode),
                 net |-> createZeroValueRatio(currencyCode)],
     profit |-> [gross |-> createZeroValueRatio(currencyCode),
                 net |-> createZeroValueRatio(currencyCode)],
     cos |-> [gross |-> createZeroValueRatio(currencyCode),
              net |-> createZeroValueRatio(currencyCode)]]

\* ------------------------------------------------------------------------
\* The capacity plan: queries
\* ------------------------------------------------------------------------
Undefined == [defined |-> FALSE, items |-> <<>>]
Defined(items) == [defined |-> TRUE, items |-> items]

\* this.metadata.capacityPlan ?? []
PlanItems == IF capacityPlan.defined THEN capacityPlan.items ELSE <<>>

\* a MonthlyCapacity; adjustment is <<>> (undefined) or <<n>>
Entry(month, capacity, adjustment) ==
    [month |-> month, capacity |-> capacity, adjustment |-> adjustment]

\* the capacity alone
CapacityOf(s) == s.capacity

\* s.capacity + (s.adjustment ?? 0)
EffectiveUnits(s) == s.capacity + (IF s.adjustment = <<>> THEN 0 ELSE s.adjustment[1])

hasCapacity == capacityPlan.defined /\ Len(capacityPlan.items) > 0

RECURSIVE SumUnits(_)
SumUnits(plan) == IF plan = <<>> THEN 0
                  ELSE SumUnits(SubSeq(plan, 1, Len(plan) - 1)) + EffectiveUnits(plan[Len(plan)])

totalCapacity == SumUnits(PlanItems)

\* reduce keeping the smaller month, from supply[0].month
earliestCapacityMonth ==
    IF ~hasCapacity THEN <<>>
    ELSE LET supply == capacityPlan.items
         IN  <<supply[CHOOSE i \in 1..Len(supply) :
                    \A j \in 1..Len(supply) : ~StrLess(supply[j].month, supply[i].month)
                 ].month>>

latestCapacityMonth ==
    IF ~hasCapacity THEN <<>>
    ELSE LET supply == capacityPlan.items
         IN  <<supply[CHOOSE i \in 1..Len(supply) :
                    \A j \in 1..Len(supply) : ~StrGreater(supply[j].month, supply[i].month)
                 ].month>>

\* index of the first entry of `plan` for `month`, 0 if there is none
\* (find / findIndex / some over s.month === month)
FindMonth(plan, month) ==
    LET hits == {i \in 1..Len(plan) : plan[i].month = month}
    IN  IF hits = {} THEN 0 ELSE CHOOSE i \in hits : \A j \in hits : i <= j

\* everything from position i on removed
RemoveFrom(seq, i) == SubSeq(seq, 1, i - 1)

RemoveAt(seq, i) == SubSeq(seq, 1, i - 1) \o SubSeq(seq, i + 1, Len(seq))


\* ------------------------------------------------------------------------
\* Finance helpers
\* ------------------------------------------------------------------------

\* DEFAULT_ZERO(): zero money in the rate's currency
DEFAULT_ZERO == FromMinor(0, rate.amount.cur)

\* plan.reduce((acc, s) => acc.add(unit.multiply(units of s)), zero); <<>> if
\* an add throws
RECURSIVE SumOverPlan(_, _, _)
SumOverPlan(plan, unit, zero) ==
    IF plan = <<>> THEN <<zero>>
    ELSE LET acc == SumOverPlan(SubSeq(plan, 1, Len(plan) - 1), unit, zero)
         IN  IF Threw(acc) THEN <<>>
             ELSE MoneyAdd(acc[1], MoneyMultiply(unit, EffectiveUnits(plan[Len(plan)])))

\* this.metadata.cos.reduce((acc, c) => acc.add(c.subtotal), zero)
RECURSIVE SumSubtotals(_, _)
SumSubtotals(items, zero) ==
    IF items = <<>> THEN <<zero>>
    ELSE LET acc == SumSubtotals(SubSeq(items, 1, Len(items) - 1), zero)
         IN  IF Threw(acc) THEN <<>>
             ELSE MoneyAdd(acc[1], items[Len(items)].subtotal)

computeGrossRevenue == SumOverPlan(PlanItems, rate.amount, DEFAULT_ZERO)

computeGrossCOS ==
    LET unitCOS == SumSubtotals(cos, DEFAULT_ZERO)
    IN  IF Threw(unitCOS) THEN <<>>
        ELSE SumOverPlan(PlanItems, unitCOS[1], DEFAULT_ZERO)

computeGrossProfit ==
    IF Threw(computeGrossRevenue) \/ Threw(computeGrossCOS) THEN <<>>
    ELSE MoneySubtract(computeGrossRevenue[1], computeGrossCOS[1])

\* the snapshot recomputeFinance assembles; <<>> if a computation throws
ComputedFinance ==
    IF Threw(computeGrossRevenue) \/ Threw(computeGrossCOS) \/ Threw(computeGrossProfit)
    THEN <<>>
    ELSE LET grossRevenue == computeGrossRevenue[1]
             grossCOS == computeGrossCOS[1]
             grossProfit == computeGrossProfit[1]
             grossIncome == grossProfit
             revenueMargin == IF MoneyIsZero(grossRevenue) THEN RatioZero
                              ELSE MoneyRatio(grossProfit, grossRevenue)
             cosMargin == IF MoneyIsZero(grossRevenue) THEN RatioZero
                          ELSE MoneyRatio(grossCOS, grossRevenue)
         IN  <<[revenue |-> [gross |-> [value |-> grossRevenue, marginRatio |-> RatioOne],
                             net |-> [value |-> grossRevenue, marginRatio |-> RatioOne]],
                cos |-> [gross |-> [value |-> grossCOS, marginRatio |-> cosMargin],
                         net |-> [value |-> grossCOS, marginRatio |-> cosMargin]],
                profit |-> [gross |-> [value |-> grossProfit, marginRatio |-> revenueMargin],
                            net |-> [value |-> grossProfit, marginRatio |-> revenueMargin]],
                income |-> [gross |-> [value |-> grossIncome, marginRatio |-> revenueMargin],
                            net |-> [value |-> grossIncome, marginRatio |-> revenueMargin]]]>>

\* ------------------------------------------------------------------------
\* Calls: what every call records, and the two private helpers
\* ------------------------------------------------------------------------
Call(op, ok) == [op |-> op, ok |-> ok]

\* every call records itself; each operation is explored while calls < MaxCalls
Called(op, ok) ==
    /\ lastOp' = Call(op, ok)
    /\ calls' = calls + 1

\* a call that throws before it has written anything
Fail(op) ==
    /\ Called(op, FALSE)
    /\ UNCHANGED <<rate, cos, capacityPlan, finance, financeDirty, last_update, tz, ident>>

\* last_update = new Date().toISOString(): a reading of the clock, later than
\* the last one
updateTimestamp == last_update' = last_update + 1

\* a mutator that leaves the cache flag as it finds it
LeaveFinanceFlag == financeDirty' = financeDirty

markFinanceDirty == financeDirty' = TRUE

\* the tail of every successful mutator
Touched(op) ==
    /\ updateTimestamp
    /\ markFinanceDirty
    /\ Called(op, TRUE)
    /\ UNCHANGED <<finance, tz, ident>>

\* assertCurrency(money) passes
SameCurrency(money) == money.cur = rate.amount.cur

\* ------------------------------------------------------------------------
\* Construction
\* ------------------------------------------------------------------------
Currencies == {"PHP", "USD"}

InitRate == [amount |-> FromMajor(2, "PHP"), unit |-> PER_USER, billingCycle |-> MONTHLY]

TimeZones == {"behindUTC", "UTCorAhead"}

\* id = autogenerateID("mjksub"), slug = generateSlug(name), timestamp = the
\* ISO string of the moment of construction
InitIdent == [id |-> "mjksub-1", slug |-> "pro-plan", name |-> "Pro Plan", timestamp |-> "t0"]

\* a field initialiser that leaves the flag clear
InitiallyClean == FALSE

\* private financeDirty = true
InitiallyDirty == TRUE

\* MajikSubscription.initialize(name, type, rate, category): empty COS, no
\* capacity plan, zeroed snapshot in the rate's currency, financeDirty = true
Init ==
    /\ rate = InitRate
    /\ cos = <<>>
    /\ capacityPlan = Undefined
    /\ finance = createEmptySubscriptionFinance(InitRate.amount.cur)
    /\ financeDirty = InitiallyDirty
    /\ last_update = 0
    /\ ident = InitIdent
    /\ tz \in TimeZones
    /\ lastOp = Call("initialize", TRUE)
    /\ calls = 0

\* ------------------------------------------------------------------------
\* Rate mutators
\* ------------------------------------------------------------------------
setRate(r) ==
    /\ calls < MaxCalls
    /\ rate' = r
    /\ UNCHANGED <<cos, capacityPlan>>
    /\ Touched("setRate")

setRateUnit(unit) ==
    /\ calls < MaxCalls
    /\ rate' = [rate EXCEPT !.unit = unit]
    /\ UNCHANGED <<cos, capacityPlan>>
    /\ Touched("setRateUnit")

setRateAmount(amount) ==
    /\ calls < MaxCalls
    /\ IF amount <= 0 THEN Fail("setRateAmount")
       ELSE /\ rate' = [rate EXCEPT !.amount = FromMajor(amount, rate.amount.cur)]
            /\ UNCHANGED <<cos, capacityPlan>>
            /\ Touched("setRateAmount")

\* ------------------------------------------------------------------------
\* COS mutators
\* ------------------------------------------------------------------------
\* a COSItem; unit is <<>> (undefined) or <<label>>
COSItem(id, item, unitCost, quantity, subtotal, unit) ==
    [id |-> id, item |-> item, unitCost |-> unitCost, quantity |-> quantity,
     subtotal |-> subtotal, unit |-> unit]

\* name.trim() is empty
Blank(name) == name \in {"", " "}

\* index of the first COS item with this id, 0 if there is none
FindCOS(id) ==
    LET hits == {i \in 1..Len(cos) : cos[i].id = id}
    IN  IF hits = {} THEN 0 ELSE CHOOSE i \in hits : \A j \in hits : i <= j

\* id is what autogenerateID("mjksubcost") returns
addCOS(name, unitCost, quantity, unit, id) ==
    /\ calls < MaxCalls
    /\ IF Blank(name) \/ quantity <= 0 \/ ~SameCurrency(unitCost)
       THEN Fail("addCOS")
       ELSE /\ cos' = Append(cos, COSItem(id, name, unitCost, quantity,
                                          MoneyMultiply(unitCost, quantity), unit))
            /\ UNCHANGED <<rate, capacityPlan>>
            /\ Touched("addCOS")

pushCOS(item) ==
    /\ calls < MaxCalls
    /\ IF item.id = "" \/ Blank(item.item) \/ item.quantity <= 0 \/ ~SameCurrency(item.unitCost)
       THEN Fail("pushCOS")
       ELSE /\ cos' = Append(cos, [item EXCEPT
                                     !.subtotal = MoneyMultiply(item.unitCost, item.quantity)])
            /\ UNCHANGED <<rate, capacityPlan>>
            /\ Touched("pushCOS")

\* updates = [quantity, unitCost, unit, item], each <<>> (absent) or <<value>>.
\* The quantity is written before the unit cost's currency is asserted.
updateCOS(id, updates) ==
    /\ calls < MaxCalls
    /\ LET i == FindCOS(id)
       IN  IF i = 0 THEN Fail("updateCOS")
           ELSE IF updates.quantity # <<>> /\ updates.quantity[1] <= 0
           THEN Fail("updateCOS")
           ELSE LET q == IF updates.quantity # <<>> THEN updates.quantity[1] ELSE cos[i].quantity
                IN  IF updates.unitCost # <<>> /\ ~SameCurrency(updates.unitCost[1])
                    THEN /\ cos' = [cos EXCEPT ![i].quantity = q]
                         /\ Called("updateCOS", FALSE)
                         /\ UNCHANGED <<rate, capacityPlan, finance, financeDirty,
                                        last_update, tz, ident>>
                    ELSE LET uc == IF updates.unitCost # <<>> THEN updates.unitCost[1]
                                   ELSE cos[i].unitCost
                             nm == IF updates.item # <<>> /\ ~Blank(updates.item[1])
                                   THEN updates.item[1] ELSE cos[i].item
                             un == IF updates.unit # <<>> THEN updates.unit ELSE cos[i].unit
                         IN  /\ cos' = [cos EXCEPT ![i] =
                                           COSItem(cos[i].id, nm, uc, q, MoneyMultiply(uc, q), un)]
                             /\ UNCHANGED <<rate, capacityPlan>>
                             /\ Touched("updateCOS")

\* an item setCOS rejects: !id || !item || !unitCost || quantity == null ||
\* !subtotal (absent money is <<>> here), or a unit cost in another currency
BadCOSItem(item) ==
    \/ item.id = "" \/ item.item = ""
    \/ item.unitCost = <<>> \/ item.subtotal = <<>>
    \/ ~SameCurrency(item.unitCost[1])

\* [...items], each item with its money fields present
RECURSIVE StoredCOS(_)
StoredCOS(items) ==
    IF items = <<>> THEN <<>>
    ELSE Append(StoredCOS(SubSeq(items, 1, Len(items) - 1)),
                [items[Len(items)] EXCEPT !.unitCost = items[Len(items)].unitCost[1],
                                          !.subtotal = items[Len(items)].subtotal[1]])

\* items carry unitCost and subtotal as <<>> or <<money>>; quantity is present
setCOS(items) ==
    /\ calls < MaxCalls
    /\ IF \E i \in 1..Len(items) : BadCOSItem(items[i])
       THEN Fail("setCOS")
       ELSE /\ cos' = StoredCOS(items)
            /\ UNCHANGED <<rate, capacityPlan>>
            /\ Touched("setCOS")

removeCOS(id) ==
    /\ calls < MaxCalls
    /\ LET index == FindCOS(id)
       IN  IF index = 0 THEN Fail("removeCOS")
           ELSE /\ cos' = RemoveAt(cos, index)
                /\ UNCHANGED <<rate, capacityPlan>>
                /\ Touched("removeCOS")

clearCostBreakdown ==
    /\ calls < MaxCalls
    /\ cos' = <<>>
    /\ UNCHANGED <<rate, capacityPlan>>
    /\ Touched("clearCostBreakdown")


\* ------------------------------------------------------------------------
\* Capacity mutators
\* ------------------------------------------------------------------------

\* an entry setCapacity rejects; an input entry carries capacity as <<n>>, or
\* <<>> when it is not a number
BadEntry(s) == ~isValidYYYYMM(s.month) \/ s.capacity = <<>>

\* [...capacityPlan], each entry with its capacity present
RECURSIVE StoredPlan(_)
StoredPlan(plan) ==
    IF plan = <<>> THEN <<>>
    ELSE Append(StoredPlan(SubSeq(plan, 1, Len(plan) - 1)),
                [plan[Len(plan)] EXCEPT !.capacity = plan[Len(plan)].capacity[1]])

\* the body of setCapacity, on behalf of the call `op`
SetCapacityAs(op, plan) ==
    /\ calls < MaxCalls
    /\ IF \E i \in 1..Len(plan) : BadEntry(plan[i])
       THEN Fail(op)
       ELSE /\ capacityPlan' = Defined(StoredPlan(plan))
            /\ UNCHANGED <<rate, cos>>
            /\ Touched(op)

setCapacity(plan) == SetCapacityAs("setCapacity", plan)

\* a non-negative fraction [n, d], d > 0
Frac(n, d) == [n |-> n, d |-> d]

\* Math.round of the fraction: the nearest integer, halves up
MathRound(x) == (2 * x.n + x.d) \div (2 * x.d)

RECURSIVE Power(_, _)
Power(b, e) == IF e = 0 THEN 1 ELSE b * Power(b, e - 1)

\* a running value that is rounded before each growth step
RECURSIVE RoundedRunningUnits(_, _, _)
RoundedRunningUnits(amount, growthRate, i) ==
    IF i = 0 THEN amount
    ELSE LET before == Frac(MathRound(RoundedRunningUnits(amount, growthRate, i - 1)), 1)
         IN  IF growthRate.n > 0
             THEN Frac(before.n * (growthRate.d + growthRate.n), before.d * growthRate.d)
             ELSE before

\* currentUnits after i passes of `if (growthRate > 0) currentUnits *= 1 + growthRate`,
\* in exact arithmetic
RECURSIVE currentUnits(_, _, _)
currentUnits(amount, growthRate, i) ==
    IF i = 0 THEN amount
    ELSE LET before == currentUnits(amount, growthRate, i - 1)
         IN  IF growthRate.n > 0
             THEN Frac(before.n * (growthRate.d + growthRate.n), before.d * growthRate.d)
             ELSE before

\* start.getFullYear() * 12 + start.getMonth(): the local calendar month of a
\* date that is midnight UTC on the first of a month
LocalMonthCount(date) == IF tz = "behindUTC" THEN Val(date) - 1 ELSE Val(date)

\* new Date(year, monthIndex, 1) in local time, read back with getFullYear
\* and getMonth: a year 0..99 means 1900 + year, the month index carries
LocalDate(year, monthIndex) ==
    LET y == IF year >= 0 /\ year <= 99 THEN 1900 + year ELSE year
    IN  y * 12 + monthIndex

\* `${yyyy}-${mm}` of the i-th generated month
GeneratedMonth(start, i) ==
    LET local == LocalMonthCount(start)
        date == LocalDate(local \div 12, (local % 12) + i)
    IN  NumToStr(date \div 12) \o <<"-">> \o PadStart2(NumToStr((date % 12) + 1))

RECURSIVE GeneratedPlan(_, _, _, _)
GeneratedPlan(start, amount, growthRate, months) ==
    IF months = 0 THEN <<>>
    ELSE Append(GeneratedPlan(start, amount, growthRate, months - 1),
                Entry(GeneratedMonth(start, months - 1),
                      <<MathRound(currentUnits(amount, growthRate, months - 1))>>,
                      <<>>))

\* months is an integer; amount and growthRate are fractions [n, d] (finite)
generateCapacityPlan(months, amount, growthRate, startDate, now) ==
    /\ calls < MaxCalls
    /\ IF months <= 0 \/ amount.n < 0 \/ growthRate.n < 0
       THEN Fail("generateCapacityPlan")
       ELSE LET start == normalizeStartDate(startDate, now)
            IN  IF IsNaN(start) THEN Fail("generateCapacityPlan")
                ELSE SetCapacityAs("generateCapacityPlan",
                                   GeneratedPlan(start, amount, growthRate, months))

\* every capacity set to amount, every adjustment dropped
RECURSIVE WithCapacityOnly(_, _)
WithCapacityOnly(supply, amount) ==
    IF supply = <<>> THEN <<>>
    ELSE Append(WithCapacityOnly(SubSeq(supply, 1, Len(supply) - 1), amount),
                [supply[Len(supply)] EXCEPT !.capacity = amount, !.adjustment = <<>>])

RECURSIVE WithCapacity(_, _)
WithCapacity(supply, amount) ==
    IF supply = <<>> THEN <<>>
    ELSE Append(WithCapacity(SubSeq(supply, 1, Len(supply) - 1), amount),
                [supply[Len(supply)] EXCEPT !.capacity = amount])

normalizeCapacityUnits(amount) ==
    /\ calls < MaxCalls
    /\ IF amount < 0 THEN Fail("normalizeCapacityUnits")
       ELSE IF ~hasCapacity THEN Fail("normalizeCapacityUnits")
       ELSE IF Len(capacityPlan.items) = 1
       THEN /\ Called("normalizeCapacityUnits", TRUE)
            /\ UNCHANGED <<rate, cos, capacityPlan, finance, financeDirty, last_update, tz, ident>>
       ELSE /\ capacityPlan' = Defined(WithCapacity(capacityPlan.items, amount))
            /\ UNCHANGED <<rate, cos>>
            /\ Touched("normalizeCapacityUnits")

\* Math.floor(a / b) for b > 0
FloorDiv(a, b) == IF a >= 0 THEN a \div b ELSE -(((-a) + b - 1) \div b)

\* a % b in JavaScript for b > 0: the remainder has the sign of a
JsRem(a, b) == IF a >= 0 THEN a % b ELSE -((-a) % b)

\* the number of passes of `for (let i = 0; i < newLength; i++)`
LoopCount(newLength) == IF IsNaN(newLength) \/ Val(newLength) <= 0 THEN 0 ELSE Val(newLength)

\* a copy that pads with the first entry of oldPlan instead of the last
RECURSIVE PadWithFirstEntry(_, _, _)
PadWithFirstEntry(start, oldPlan, n) ==
    IF n = 0 THEN <<>>
    ELSE LET i == n - 1
             source == IF i < Len(oldPlan) THEN oldPlan[i + 1] ELSE oldPlan[1]
         IN  Append(PadWithFirstEntry(start, oldPlan, n - 1),
                    Entry(Val(offsetMonthsToYYYYMM(start, i)), source.capacity,
                          source.adjustment))

\* DEFAULT: entry i copies oldPlan[i], or the last entry of oldPlan past its end
RECURSIVE DefaultPlan(_, _, _)
DefaultPlan(start, oldPlan, n) ==
    IF n = 0 THEN <<>>
    ELSE LET i == n - 1
             source == IF i < Len(oldPlan) THEN oldPlan[i + 1] ELSE oldPlan[Len(oldPlan)]
         IN  Append(DefaultPlan(start, oldPlan, n - 1),
                    Entry(Val(offsetMonthsToYYYYMM(start, i)), source.capacity,
                          source.adjustment))

\* base + 1 in every month
RECURSIVE DistributeRoundedUp(_, _, _, _)
DistributeRoundedUp(start, total, newLength, n) ==
    IF n = 0 THEN <<>>
    ELSE Append(DistributeRoundedUp(start, total, newLength, n - 1),
                Entry(Val(offsetMonthsToYYYYMM(start, n - 1)),
                      FloorDiv(total, newLength) + 1, <<>>))

\* DISTRIBUTE: base everywhere, one more while the counted-down remainder is
\* positive
RECURSIVE DistributePlan(_, _, _, _)
DistributePlan(start, total, newLength, n) ==
    IF n = 0 THEN <<>>
    ELSE LET i == n - 1
             base == FloorDiv(total, newLength)
             remainder == JsRem(total, newLength) - i
             extra == IF remainder > 0 THEN 1 ELSE 0
         IN  Append(DistributePlan(start, total, newLength, n - 1),
                    Entry(Val(offsetMonthsToYYYYMM(start, i)), base + extra, <<>>))

\* newPlan of recomputeCapacityPeriod(start, end, mode) on an entity whose
\* capacity plan is `plan`, as <<newPlan>>; <<>> if the call throws.
\* this.hasCapacity() is plan.defined /\ Len(plan.items) > 0 and
\* this.totalCapacity is SumUnits(plan.items).
RecomputedPlan(plan, start, end, mode) ==
    IF ~isValidYYYYMM(start) \/ ~isValidYYYYMM(end) THEN <<>>
    ELSE IF ~(plan.defined /\ Len(plan.items) > 0) THEN <<>>
    ELSE IF StrGreater(start, end) THEN <<>>
    ELSE LET newLength == monthsInPeriod(start, end)
             oldPlan == plan.items
             n == LoopCount(newLength)
         IN  IF n > 0 /\ IsNaN(offsetMonthsToYYYYMM(start, 0)) THEN <<>>
             ELSE <<IF mode = DEFAULT THEN DefaultPlan(start, oldPlan, n)
                    ELSE IF mode = DISTRIBUTE
                    THEN DistributePlan(start, SumUnits(oldPlan), n, n)
                    ELSE <<>>>>

recomputeCapacityPeriod(start, end, mode) ==
    /\ calls < MaxCalls
    /\ LET newPlan == RecomputedPlan(capacityPlan, start, end, mode)
       IN  IF Threw(newPlan) THEN Fail("recomputeCapacityPeriod")
           ELSE /\ capacityPlan' = Defined(newPlan[1])
                /\ UNCHANGED <<rate, cos>>
                /\ Touched("recomputeCapacityPeriod")

addCapacity(month, units, adjustment) ==
    /\ calls < MaxCalls
    /\ IF ~isValidYYYYMM(month) THEN Fail("addCapacity")
       ELSE IF FindMonth(PlanItems, month) # 0 THEN Fail("addCapacity")
       ELSE /\ capacityPlan' = Defined(Append(PlanItems, Entry(month, units, adjustment)))
            /\ UNCHANGED <<rate, cos>>
            /\ Touched("addCapacity")

updateCapacityUnits(month, units) ==
    /\ calls < MaxCalls
    /\ LET i == FindMonth(PlanItems, month)
       IN  IF ~isValidYYYYMM(month) \/ i = 0 THEN Fail("updateCapacityUnits")
           ELSE /\ capacityPlan' = Defined([capacityPlan.items EXCEPT ![i].capacity = units])
                /\ UNCHANGED <<rate, cos>>
                /\ Touched("updateCapacityUnits")

updateCapacityAdjustment(month, adjustment) ==
    /\ calls < MaxCalls
    /\ LET i == FindMonth(PlanItems, month)
       IN  IF ~isValidYYYYMM(month) \/ i = 0 THEN Fail("updateCapacityAdjustment")
           ELSE /\ capacityPlan' = Defined([capacityPlan.items EXCEPT ![i].adjustment = adjustment])
                /\ UNCHANGED <<rate, cos>>
                /\ Touched("updateCapacityAdjustment")

removeCapacity(month) ==
    /\ calls < MaxCalls
    /\ LET index == FindMonth(PlanItems, month)
       IN  IF ~isValidYYYYMM(month) \/ index = 0 THEN Fail("removeCapacity")
           ELSE /\ capacityPlan' = Defined(RemoveAt(capacityPlan.items, index))
                /\ UNCHANGED <<rate, cos>>
                /\ Touched("removeCapacity")

clearCapacity ==
    /\ calls < MaxCalls
    /\ capacityPlan' = Defined(<<>>)
    /\ UNCHANGED <<rate, cos>>
    /\ Touched("clearCapacity")

\* the plan in the order it is stored
StorageOrder(plan) == plan

\* [...plan].sort((a, b) => a.month.localeCompare(b.month)): stable, ascending
RECURSIVE InsertByMonth(_, _)
InsertByMonth(sorted, e) ==
    IF sorted = <<>> THEN <<e>>
    ELSE IF StrLess(e.month, sorted[Len(sorted)].month)
    THEN Append(InsertByMonth(SubSeq(sorted, 1, Len(sorted) - 1), e), sorted[Len(sorted)])
    ELSE Append(sorted, e)

RECURSIVE SortByMonth(_)
SortByMonth(plan) ==
    IF plan = <<>> THEN <<>>
    ELSE InsertByMonth(SortByMonth(SubSeq(plan, 1, Len(plan) - 1)), plan[Len(plan)])

\* s.adjustment ?? 0
AdjustmentOrZero(s) == IF s.adjustment = <<>> THEN 0 ELSE s.adjustment[1]

\* the trial applied to every entry of the plan
TrialOnAll(sortedPlan, months) ==
    [i \in 1..Len(sortedPlan) |->
        [sortedPlan[i] EXCEPT
            !.adjustment = <<AdjustmentOrZero(sortedPlan[i]) - sortedPlan[i].capacity>>]]

\* adjustment = (adjustment ?? 0) - capacity on the first `months` entries
RECURSIVE TrialPlan(_, _)
TrialPlan(sortedPlan, months) ==
    IF sortedPlan = <<>> THEN <<>>
    ELSE LET n == Len(sortedPlan)
             s == sortedPlan[n]
         IN  Append(TrialPlan(SubSeq(sortedPlan, 1, n - 1), months),
                    IF n <= months
                    THEN [s EXCEPT !.adjustment = <<AdjustmentOrZero(s) - s.capacity>>]
                    ELSE s)

applyTrial(months) ==
    /\ calls < MaxCalls
    /\ IF months <= 0 THEN Fail("applyTrial")
       ELSE IF ~capacityPlan.defined
       THEN /\ Called("applyTrial", TRUE)
            /\ UNCHANGED <<rate, cos, capacityPlan, finance, financeDirty, last_update, tz, ident>>
       ELSE LET newPlan == TrialPlan(SortByMonth(capacityPlan.items), months)
            IN  /\ capacityPlan' = Defined(newPlan)
                /\ UNCHANGED <<rate, cos>>
                /\ Touched("applyTrial")

\* ------------------------------------------------------------------------
\* Aggregate finance getters
\* ------------------------------------------------------------------------

\* the flag cleared, the snapshot left as it was
ClearFlagOnly ==
    IF ~financeDirty THEN UNCHANGED <<finance, financeDirty>>
    ELSE /\ finance' = finance
         /\ financeDirty' = FALSE

\* the snapshot written, the flag left as it was
RecomputeAndStayDirty ==
    IF ~financeDirty THEN UNCHANGED <<finance, financeDirty>>
    ELSE /\ finance' = ComputedFinance[1]
         /\ financeDirty' = financeDirty

\* recomputeFinance when no computation throws
recomputeFinance ==
    IF ~financeDirty THEN UNCHANGED <<finance, financeDirty>>
    ELSE /\ finance' = ComputedFinance[1]
         /\ financeDirty' = FALSE

\* what each getter returns from the snapshot
SnapshotValue(getter, snapshot) ==
    IF getter = "grossRevenue" THEN snapshot.revenue.gross.value
    ELSE IF getter = "grossCost" THEN snapshot.cos.gross.value
    ELSE IF getter = "grossProfit" THEN snapshot.profit.gross.value
    ELSE IF getter = "netRevenue" THEN snapshot.revenue.net.value
    ELSE snapshot.profit.net.value

AggregateGetters == {"grossRevenue", "grossCost", "grossProfit", "netRevenue", "netProfit"}

\* get grossRevenue / grossCost / grossProfit / netRevenue / netProfit
AggregateGetter(getter) ==
    /\ calls < MaxCalls
    /\ IF financeDirty /\ Threw(ComputedFinance) THEN Fail(getter)
       ELSE /\ recomputeFinance
            /\ Called(getter, TRUE)
            /\ UNCHANGED <<rate, cos, capacityPlan, last_update, tz, ident>>

\* what a getter returns: the cell of the snapshot once recomputeFinance has
\* run; <<>> if the recomputation throws
GetterResult(getter) ==
    IF financeDirty
    THEN IF Threw(ComputedFinance) THEN <<>>
         ELSE <<SnapshotValue(getter, ComputedFinance[1])>>
    ELSE <<SnapshotValue(getter, finance)>>

\* a.divide(n): the exact quotient of the amount, a fraction in lowest terms
MoneyDivide(a, n) ==
    LET g == GCD(Abs(a.amt), n)
    IN  [amt |-> Frac(a.amt \div g, n \div g), cur |-> a.cur]

AverageGetters == {"averageMonthlyRevenue", "averageMonthlyProfit"}

\* get averageMonthlyRevenue / averageMonthlyProfit: DEFAULT_ZERO() for no
\* months (written here as the quotient 0 / 1), else the gross total
\* divided by the number of entries
AverageResult(getter) ==
    LET months == Len(PlanItems)
        gross == GetterResult(IF getter = "averageMonthlyRevenue"
                              THEN "grossRevenue" ELSE "grossProfit")
    IN  IF months = 0 THEN <<MoneyDivide(DEFAULT_ZERO, 1)>>
        ELSE IF Threw(gross) THEN <<>>
        ELSE <<MoneyDivide(gross[1], months)>>

AverageGetter(getter) ==
    /\ calls < MaxCalls
    /\ IF Len(PlanItems) = 0
       THEN /\ Called(getter, TRUE)
            /\ UNCHANGED <<rate, cos, capacityPlan, finance, financeDirty, last_update, tz, ident>>
       ELSE IF financeDirty /\ Threw(ComputedFinance) THEN Fail(getter)
       ELSE /\ recomputeFinance
            /\ Called(getter, TRUE)
            /\ UNCHANGED <<rate, cos, capacityPlan, last_update, tz, ident>>

\* ------------------------------------------------------------------------
\* Monthly finance accessors: <<>> is a thrown error
\* ------------------------------------------------------------------------
getRevenue(month) ==
    IF ~isValidYYYYMM(month) THEN <<>>
    ELSE LET i == FindMonth(PlanItems, month)
         IN  IF i = 0 THEN <<DEFAULT_ZERO>>
             ELSE <<MoneyMultiply(rate.amount, EffectiveUnits(PlanItems[i]))>>

getCOS(month) ==
    IF ~isValidYYYYMM(month) THEN <<>>
    ELSE LET i == FindMonth(PlanItems, month)
         IN  IF i = 0 THEN <<DEFAULT_ZERO>>
             ELSE LET perUnitCOS == SumSubtotals(cos, DEFAULT_ZERO)
                  IN  IF Threw(perUnitCOS) THEN <<>>
                      ELSE <<MoneyMultiply(perUnitCOS[1], EffectiveUnits(PlanItems[i]))>>

getProfit(month) ==
    IF ~isValidYYYYMM(month) THEN <<>>
    ELSE IF Threw(getRevenue(month)) \/ Threw(getCOS(month)) THEN <<>>
    ELSE MoneySubtract(getRevenue(month)[1], getCOS(month)[1])

\* the quotient taken without looking at the revenue first
MarginUnguarded(month) ==
    IF ~isValidYYYYMM(month) THEN <<>>
    ELSE IF Threw(getProfit(month)) THEN <<>>
    ELSE <<<<getProfit(month)[1].amt, getRevenue(month)[1].amt>>>>

getMargin(month) ==
    IF ~isValidYYYYMM(month) THEN <<>>
    ELSE IF Threw(getRevenue(month)) THEN <<>>
    ELSE IF MoneyIsZero(getRevenue(month)[1]) THEN <<RatioZero>>
    ELSE IF Threw(getProfit(month)) THEN <<>>
    ELSE <<MoneyRatio(getProfit(month)[1], getRevenue(month)[1])>>

\* net.subtract(d) for each deduction of the list that is supplied
RECURSIVE SubtractAll(_, _)
SubtractAll(net, deductions) ==
    IF Threw(net) THEN <<>>
    ELSE IF deductions = <<>> THEN net
    ELSE IF Head(deductions) = <<>> THEN SubtractAll(net, Tail(deductions))
    ELSE SubtractAll(MoneySubtract(net[1], Head(deductions)[1]), Tail(deductions))

\* each deduction is <<>> (not supplied) or <<money>>
getNetRevenue(month, discounts, returns, allowances) ==
    IF ~isValidYYYYMM(month) THEN <<>>
    ELSE SubtractAll(getRevenue(month), <<discounts, returns, allowances>>)

getNetProfit(month, operatingExpenses, taxes, discounts, returns, allowances) ==
    IF ~isValidYYYYMM(month) THEN <<>>
    ELSE SubtractAll(getNetRevenue(month, discounts, returns, allowances),
                     <<operatingExpenses, taxes>>)

MonthlyAccessors == {"getRevenue", "getCOS", "getProfit", "getMargin",
                     "getNetRevenue", "getNetProfit"}

\* the result of the accessor called with one deduction (or none) throughout
MonthlyResult(accessor, month, deduction) ==
    IF accessor = "getRevenue" THEN getRevenue(month)
    ELSE IF accessor = "getCOS" THEN getCOS(month)
    ELSE IF accessor = "getProfit" THEN getProfit(month)
    ELSE IF accessor = "getMargin" THEN getMargin(month)
    ELSE IF accessor = "getNetRevenue" THEN getNetRevenue(month, deduction, <<>>, <<>>)
    ELSE getNetProfit(month, deduction, <<>>, <<>>, <<>>, <<>>)

\* a monthly accessor that marks the cache stale as a mutator does
MonthlyAccessorMarksDirty(accessor, month, deduction) ==
    /\ calls < MaxCalls
    /\ LET result == MonthlyResult(accessor, month, deduction)
       IN  /\ Called(accessor, ~Threw(result))
           /\ markFinanceDirty
           /\ UNCHANGED <<rate, cos, capacityPlan, finance, last_update, tz, ident>>

\* a call of a monthly accessor: it returns or throws, and writes nothing
MonthlyAccessor(accessor, month, deduction) ==
    /\ calls < MaxCalls
    /\ LET result == MonthlyResult(accessor, month, deduction)
       IN  /\ Called(accessor, ~Threw(result))
           /\ UNCHANGED <<rate, cos, capacityPlan, finance, financeDirty, last_update, tz, ident>>

\* getMRR(month?): the revenue of the month, or of the month the clock reads
\* (in UTC) when the month is left out or empty
getMRR(month, now) ==
    getRevenue(IF month = <<>> THEN dateToYYYYMM(now) ELSE month)

\* a call of getMRR: it returns or throws, and writes nothing
MRRCall(month, now) ==
    /\ calls < MaxCalls
    /\ Called("getMRR", ~Threw(getMRR(month, now)))
    /\ UNCHANGED <<rate, cos, capacityPlan, finance, financeDirty, last_update, tz, ident>>


\* ------------------------------------------------------------------------
\* Forecasts.  A number argument is a fraction [n, d]; <<>> is an argument
\* left out.
\* ------------------------------------------------------------------------
\* Number.isInteger(x)
IsInteger(x) == x.n % x.d = 0

\* forecast after the loop has run for i = 0 .. count - 1
RECURSIVE ForecastLoop(_, _)
ForecastLoop(sortedPlan, count) ==
    IF count = 0 THEN DEFAULT_ZERO
    ELSE LET i == count - 1
             monthEntry == sortedPlan[(i % Len(sortedPlan)) + 1]
             capacity == monthEntry.capacity + AdjustmentOrZero(monthEntry)
         IN  MoneyAdd(ForecastLoop(sortedPlan, i), MoneyMultiply(rate.amount, capacity))[1]

forecastRevenue(nextNMonths) ==
    IF ~IsInteger(nextNMonths) \/ nextNMonths.n <= 0 THEN <<>>
    ELSE IF ~capacityPlan.defined \/ Len(capacityPlan.items) = 0 THEN <<DEFAULT_ZERO>>
    ELSE <<ForecastLoop(SortByMonth(capacityPlan.items), nextNMonths.n \div nextNMonths.d)>>

\* getARR(months = 12)
getARR(months) == forecastRevenue(IF months = <<>> THEN Frac(12, 1) ELSE months[1])

ForecastAccessors == {"forecastRevenue", "getARR"}

\* a call of forecastRevenue(n) or getARR(n), or of getARR(): it returns or
\* throws, and writes nothing
ForecastCall(accessor, months) ==
    /\ calls < MaxCalls
    /\ LET result == IF accessor = "getARR" THEN getARR(months)
                     ELSE forecastRevenue(months[1])
       IN  Called(accessor, ~Threw(result))
    /\ UNCHANGED <<rate, cos, capacityPlan, finance, financeDirty, last_update, tz, ident>>

\* ------------------------------------------------------------------------
\* Serialization.  serializeMoney turns every money value of the object into
\* a currency-tagged amount in minor units; deserializeMoney turns it back.
\* ------------------------------------------------------------------------
SerializedMoney(m) == [amount |-> m.amt, currency |-> m.cur]

DeserializedMoney(j) == FromMinor(j.amount, j.currency)

\* every money value of the object converted, to its JSON form (serialize) or
\* back from it: the amount of the rate, the unit cost and the subtotal of each
\* COS item, the value of each cell of the snapshot
OnMoneyOfObject(serialize, obj) ==
    LET f(m) == IF serialize THEN SerializedMoney(m) ELSE DeserializedMoney(m)
        OfRate(r) == [r EXCEPT !.amount = f(r.amount)]
        OfCOS(items) ==
            [i \in 1..Len(items) |->
                [items[i] EXCEPT !.unitCost = f(items[i].unitCost),
                                 !.subtotal = f(items[i].subtotal)]]
        OfFinance(snapshot) ==
            [row \in DOMAIN snapshot |->
                [side \in DOMAIN snapshot[row] |->
                    [snapshot[row][side] EXCEPT !.value = f(snapshot[row][side].value)]]]
    IN  [obj EXCEPT !.rate = OfRate(obj.rate),
                    !.metadata = [rate |-> OfRate(obj.metadata.rate),
                                  cos |-> OfCOS(obj.metadata.cos),
                                  capacityPlan |-> obj.metadata.capacityPlan,
                                  finance |-> OfFinance(obj.metadata.finance)]]

serializeMoney(obj) == OnMoneyOfObject(TRUE, obj)

deserializeMoney(obj) == OnMoneyOfObject(FALSE, obj)

\* toJSON(): the fields of the entity as they are, the snapshot as it is
\* stored, the dirty flag not among them
toJSON ==
    serializeMoney([id |-> ident.id, slug |-> ident.slug, name |-> ident.name,
                    rate |-> rate, timestamp |-> ident.timestamp,
                    last_update |-> last_update,
                    metadata |-> [rate |-> rate, cos |-> cos,
                                  capacityPlan |-> capacityPlan, finance |-> finance]])

\* generateSlug(name) for the names of the model
generateSlug(name) == IF name = "Pro Plan" THEN "pro-plan" ELSE ""

\* parseFromJSON(json): <<>> if id or timestamp is missing, else the entity
\* the constructor builds, its rate taken from the metadata and its
\* financeDirty field initialised to true
parseFromJSON(json) ==
    LET parsedData == deserializeMoney(json)
    IN  IF parsedData.id = "" \/ parsedData.timestamp = "" THEN <<>>
        ELSE <<[id |-> parsedData.id,
                slug |-> IF parsedData.slug = "" THEN generateSlug(parsedData.name)
                         ELSE parsedData.slug,
                name |-> parsedData.name,
                timestamp |-> parsedData.timestamp,
                last_update |-> parsedData.last_update,
                rate |-> parsedData.metadata.rate,
                cos |-> parsedData.metadata.cos,
                capacityPlan |-> parsedData.metadata.capacityPlan,
                finance |-> parsedData.metadata.finance,
                financeDirty |-> InitiallyDirty]>>

\* a call of toJSON(): it returns the object and writes nothing
SerializeCall ==
    /\ calls < MaxCalls
    /\ Called("toJSON", TRUE)
    /\ UNCHANGED <<rate, cos, capacityPlan, finance, financeDirty, last_update, tz, ident>>

\* the entity is replaced by parseFromJSON(toJSON(entity))
RestoreCall ==
    /\ calls < MaxCalls
    /\ LET parsed == parseFromJSON(toJSON)
       IN  IF Threw(parsed) THEN Fail("parseFromJSON")
           ELSE /\ ident' = [id |-> parsed[1].id, slug |-> parsed[1].slug,
                             name |-> parsed[1].name, timestamp |-> parsed[1].timestamp]
                /\ rate' = parsed[1].rate
                /\ cos' = parsed[1].cos
                /\ capacityPlan' = parsed[1].capacityPlan
                /\ finance' = parsed[1].finance
                /\ financeDirty' = parsed[1].financeDirty
                /\ last_update' = parsed[1].last_update
                /\ Called("parseFromJSON", TRUE)
                /\ UNCHANGED tz

\* ------------------------------------------------------------------------
\* Inputs
\* ------------------------------------------------------------------------
M2024_12 == <<"2", "0", "2", "4", "-", "1", "2">>
M2025_01 == <<"2", "0", "2", "5", "-", "0", "1">>
M2025_02 == <<"2", "0", "2", "5", "-", "0", "2">>
\* "2025-02a": a month 01-09 with a trailing character
M2025_02a == M2025_02 \o <<"a">>
\* "a12": merely ends in 12
Ma12 == <<"a", "1", "2">>
\* "2025-13", "2025-00": the right shape, no such month
M2025_13 == <<"2", "0", "2", "5", "-", "1", "3">>
M2025_00 == <<"2", "0", "2", "5", "-", "0", "0">>
\* "0001-01", "0001-02": months of the year 1
M0001_01 == <<"0", "0", "0", "1", "-", "0", "1">>
M0001_02 == <<"0", "0", "0", "1", "-", "0", "2">>
\* "2025-01-15": an ISO date
D2025_01_15 == M2025_01 \o <<"-", "1", "5">>

\* the inputs the calls are made with
Rates == {[amount |-> FromMajor(3, "USD"), unit |-> PER_MONTH, billingCycle |-> YEARLY]}
RateUnits == {PER_MONTH}
RateAmounts == {0, 3}
\* the ids autogenerateID("mjksubcost") hands out, each one new to the list
COSIds == <<"c1", "g2", "g3", "g4", "g5">>
NewCOSId ==
    COSIds[CHOOSE k \in 1..Len(COSIds) :
              /\ \A i \in 1..Len(cos) : cos[i].id # COSIds[k]
              /\ \A j \in 1..(k - 1) : \E i \in 1..Len(cos) : cos[i].id = COSIds[j]]
COSNames == {"", "Hosting"}
UnitCosts == {FromMajor(1, "PHP"), FromMajor(1, "USD")}
Quantities == {0, 2}
PushedItems ==
    {COSItem("c2", "Support", FromMajor(3, "PHP"), 1, FromMinor(0, "PHP"), <<"per user">>),
     COSItem("", "Support", FromMajor(1, "PHP"), 1, FromMinor(0, "PHP"), <<>>)}
UpdateIds == {"c1", "c9"}
Updates ==
    {[quantity |-> <<3>>, unitCost |-> <<>>, unit |-> <<>>, item |-> <<>>],
     [quantity |-> <<0>>, unitCost |-> <<>>, unit |-> <<>>, item |-> <<>>],
     [quantity |-> <<3>>, unitCost |-> <<FromMajor(1, "USD")>>, unit |-> <<>>, item |-> <<>>],
     [quantity |-> <<>>, unitCost |-> <<FromMajor(3, "PHP")>>, unit |-> <<"per user">>,
      item |-> <<"Support">>]}
COSLists ==
    {<<COSItem("c1", "Hosting", <<FromMajor(1, "PHP")>>, 2, <<FromMajor(2, "PHP")>>, <<>>)>>,
     <<COSItem("c1", "Hosting", <<>>, 2, <<FromMajor(2, "PHP")>>, <<>>)>>,
     <<COSItem("c3", "Hosting", <<FromMajor(1, "PHP")>>, 0, <<FromMajor(5, "PHP")>>, <<>>)>>}

\* month keys: two months, a key with a trailing character, a string that
\* ends in 12, a thirteenth month
Keys == {M2025_01, M2025_02, M2025_02a, Ma12, M2025_13}
AddUnits == {1}
UpdateUnits == {2}
Adjustments == {<<>>, <<-2>>}
Plans ==
    {<<Entry(M2025_01, <<2>>, <<>>), Entry(M2025_02, <<1>>, <<-2>>)>>,
     <<Entry(M2025_01, <<1>>, <<>>), Entry(M2025_01, <<2>>, <<>>)>>,
     <<Entry(M2025_01, <<>>, <<>>)>>,
     <<Entry(M2025_13, <<1>>, <<>>)>>}
GenMonths == {0, 2}
GenAmounts == {Frac(3, 2)}
GenGrowth == {Frac(0, 1), Frac(1, 1)}
GenStarts == {StrInput(M2025_01), StrInput(D2025_01_15), StrInput(Ma12), NoInput}
\* the clock reads December 2025
NowDates == {Some(2025 * 12 + 11)}
\* the clock at a call of getMRR: January 2025
MRRDates == {Some(2025 * 12)}
\* the month handed to getMRR, or none
MRRMonths == {<<>>, M2025_02, M2025_13}
NormalizeAmounts == {-1, 2}
\* <<start, end>> of a recomputed period
Ranges ==
    {<<M2025_01, M2025_01>>, <<M2025_01, M2025_02>>, <<M2024_12, M2025_02>>,
     <<M2025_02, M2025_01>>, <<M2025_01, M2025_02a>>, <<M2025_13, M2025_02>>,
     <<M0001_01, M0001_02>>}
Modes == {DEFAULT, DISTRIBUTE}
TrialMonths == {0, 1, 3}
\* 0, 3/2, 1 and 3 months
ForecastMonths == {Frac(0, 1), Frac(3, 2), Frac(1, 1), Frac(3, 1)}
Deductions == {<<FromMajor(1, "PHP")>>}

\* ------------------------------------------------------------------------
\* The specification: any call, in any order
\* ------------------------------------------------------------------------
RateStep ==
    \/ \E r \in Rates : setRate(r)
    \/ \E u \in RateUnits : setRateUnit(u)
    \/ \E a \in RateAmounts : setRateAmount(a)

COSStep ==
    \/ \E name \in COSNames, uc \in UnitCosts, q \in Quantities :
          addCOS(name, uc, q, <<>>, NewCOSId)
    \/ \E item \in PushedItems : pushCOS(item)
    \/ \E id \in UpdateIds, u \in Updates : updateCOS(id, u)
    \/ \E items \in COSLists : setCOS(items)
    \/ \E id \in UpdateIds : removeCOS(id)
    \/ clearCostBreakdown

CapacityStep ==
    \/ \E plan \in Plans : setCapacity(plan)
    \/ \E m \in Keys, u \in AddUnits, a \in Adjustments : addCapacity(m, u, a)
    \/ \E m \in Keys, u \in UpdateUnits : updateCapacityUnits(m, u)
    \/ \E m \in Keys, a \in Adjustments : updateCapacityAdjustment(m, a)
    \/ \E m \in Keys : removeCapacity(m)
    \/ clearCapacity
    \/ \E n \in GenMonths, amt \in GenAmounts, g \in GenGrowth, st \in GenStarts,
          now \in NowDates : generateCapacityPlan(n, amt, g, st, now)
    \/ \E amt \in NormalizeAmounts : normalizeCapacityUnits(amt)
    \/ \E r \in Ranges, mode \in Modes : recomputeCapacityPeriod(r[1], r[2], mode)
    \/ \E n \in TrialMonths : applyTrial(n)

ReadStep ==
    \/ \E g \in AggregateGetters : AggregateGetter(g)
    \/ \E g \in AverageGetters : AverageGetter(g)
    \/ \E n \in ForecastMonths : ForecastCall("forecastRevenue", <<n>>)
    \/ \E n \in {<<>>} \cup {<<m>> : m \in ForecastMonths} : ForecastCall("getARR", n)
    \/ \E acc \in MonthlyAccessors, m \in Keys, d \in Deductions :
          MonthlyAccessor(acc, m, d)
    \/ \E m \in MRRMonths, now \in MRRDates : MRRCall(m, now)

JSONStep == SerializeCall \/ RestoreCall

Next == RateStep \/ COSStep \/ CapacityStep \/ ReadStep \/ JSONStep

Spec == Init /\ [][Next]_vars

\* ------------------------------------------------------------------------
\* Properties
\* ------------------------------------------------------------------------
Mutators ==
    {"setRate", "setRateAmount", "setRateUnit", "addCOS", "pushCOS", "updateCOS", "setCOS",
     "removeCOS", "clearCostBreakdown", "setCapacity", "addCapacity", "updateCapacityUnits",
     "updateCapacityAdjustment", "removeCapacity", "clearCapacity", "generateCapacityPlan",
     "normalizeCapacityUnits", "recomputeCapacityPeriod", "applyTrial"}

\* a month key as the specification words it: four digits, a hyphen, a
\* two-digit month 01-12, nothing before or after
WellFormedKey(m) ==
    /\ Len(m) = 7
    /\ \A i \in {1, 2, 3, 4, 6, 7} : IsDigit(m[i])
    /\ m[5] = "-"
    /\ DecVal(SubSeq(m, 6, 7)) \in 1..12

\* the calendar month of a well-formed key, counted from year 0, and back
MonthIndex(m) == DecVal(SubSeq(m, 1, 4)) * 12 + DecVal(SubSeq(m, 6, 7)) - 1

RECURSIVE PadStart4(_)
PadStart4(str) == IF Len(str) >= 4 THEN str ELSE PadStart4(<<"0">> \o str)

KeyOfIndex(n) == PadStart4(NumToStr(n \div 12)) \o <<"-">> \o PadStart2(NumToStr((n % 12) + 1))

\* the (capacity, adjustment) pair of an entry
Pair(s) == <<s.capacity, s.adjustment>>

RECURSIVE SumCapacity(_)
SumCapacity(plan) ==
    IF plan = <<>> THEN 0
    ELSE SumCapacity(SubSeq(plan, 1, Len(plan) - 1)) + plan[Len(plan)].capacity

\* the entries are stored in strictly ascending order of month
Chronological(plan) ==
    \A i \in 1..(Len(plan) - 1) : StrLess(plan[i].month, plan[i + 1].month)

\* C1: whenever an aggregate getter (grossRevenue, grossCost, grossProfit,
\* netRevenue, netProfit) has just been read, after any sequence of mutator
\* calls and reads, the value it returned from the snapshot is the value an
\* uncached computation over the current rate, COS list and capacity plan
\* gives; it throws only when that computation throws.
C1_AggregateReadIsFresh ==
    lastOp.op \in AggregateGetters =>
        IF lastOp.ok
        THEN /\ ~Threw(ComputedFinance)
             /\ SnapshotValue(lastOp.op, finance)
                    = SnapshotValue(lastOp.op, ComputedFinance[1])
        ELSE Threw(ComputedFinance)

\* a read of grossProfit that followed two successful mutators, over a
\* non-empty plan and a non-empty COS list
C1_Witness ==
    /\ lastOp = Call("grossProfit", TRUE)
    /\ last_update = 2
    /\ finance.revenue.gross.value.amt # 0
    /\ finance.cos.gross.value.amt # 0

\* C2: a mutator that fails leaves the rate, every COS item, the capacity
\* plan, the dirty flag and last_update as they were before the call.
C2_FailedMutatorWritesNothing ==
    [][(lastOp'.op \in Mutators /\ ~lastOp'.ok)
          => UNCHANGED <<rate, cos, capacityPlan, financeDirty, last_update>>]_vars

\* updateCOS has thrown on the unit cost's currency with the new quantity
\* already stored: quantity 3 beside the subtotal of quantity 2
C2_Witness ==
    /\ lastOp = Call("updateCOS", FALSE)
    /\ \E i \in 1..Len(cos) :
          /\ cos[i].quantity = 3
          /\ cos[i].subtotal = MoneyMultiply(cos[i].unitCost, 2)

\* C3: recomputeCapacityPeriod(start, end, DISTRIBUTE) over a well-formed
\* range start <= end preserves the total: the sum of capacity over the new
\* plan is the sum of capacity + adjustment over the old plan.
C3_DistributePreservesTotal ==
    [][\A r \in Ranges :
          (/\ WellFormedKey(r[1]) /\ WellFormedKey(r[2])
           /\ recomputeCapacityPeriod(r[1], r[2], DISTRIBUTE)
           /\ lastOp'.ok)
          => SumCapacity(capacityPlan'.items) = totalCapacity]_vars

\* a distributed plan of two months whose capacities are both negative
C3_Witness ==
    /\ lastOp = Call("recomputeCapacityPeriod", TRUE)
    /\ Len(PlanItems) = 2
    /\ \A i \in 1..2 : PlanItems[i].capacity < 0 /\ PlanItems[i].adjustment = <<>>

\* C4: the capacity plan holds at most one entry per month.
C4_OneEntryPerMonth ==
    \A i, j \in 1..Len(PlanItems) : i # j => PlanItems[i].month # PlanItems[j].month

\* setCapacity has stored a plan that holds the same month twice
C4_Witness ==
    /\ lastOp = Call("setCapacity", TRUE)
    /\ Len(PlanItems) = 2
    /\ PlanItems[1].month = PlanItems[2].month

\* a call that takes the month key m
MonthCall(m) ==
    \/ \E acc \in MonthlyAccessors, d \in Deductions : MonthlyAccessor(acc, m, d)
    \/ \E u \in AddUnits, a \in Adjustments : addCapacity(m, u, a)
    \/ \E u \in UpdateUnits : updateCapacityUnits(m, u)
    \/ \E a \in Adjustments : updateCapacityAdjustment(m, a)
    \/ removeCapacity(m)
    \/ \E plan \in Plans : (\E i \in 1..Len(plan) : plan[i].month = m) /\ setCapacity(plan)
    \/ \E r \in Ranges, mode \in Modes :
          m \in {r[1], r[2]} /\ recomputeCapacityPeriod(r[1], r[2], mode)

\* C5: only a well-formed key (four digits, a hyphen, a month 01-12, nothing
\* else) is accepted: every month-parameterised call with any other key
\* fails, and getRevenue returns exactly for the well-formed keys.
C5_OnlyWellFormedKeysAccepted ==
    [][\A m \in Keys :
          /\ (~WellFormedKey(m) /\ MonthCall(m)) => ~lastOp'.ok
          /\ (\E d \in Deductions : MonthlyAccessor("getRevenue", m, d))
                => (lastOp'.ok <=> WellFormedKey(m))]_vars

\* addCapacity has stored an entry under a key that is not well formed
C5_Witness ==
    /\ lastOp = Call("addCapacity", TRUE)
    /\ \E i \in 1..Len(PlanItems) : ~WellFormedKey(PlanItems[i].month)

\* C6: recomputeCapacityPeriod in DEFAULT mode copies positionally from the
\* existing plan sorted by month: over a plan of well-formed keys, in whatever
\* order they are stored, entry i of the new plan has the capacity and
\* adjustment of the i-th chronologically earliest old entry, and the months
\* past the old length repeat the chronologically latest old entry.
C6_DefaultCopiesFromSortedPlan ==
    [][\A r \in Ranges :
          (/\ lastOp' = Call("recomputeCapacityPeriod", TRUE)
           /\ \A i \in 1..Len(PlanItems) : WellFormedKey(PlanItems[i].month)
           /\ recomputeCapacityPeriod(r[1], r[2], DEFAULT))
          => LET old == SortByMonth(PlanItems)
                 new == capacityPlan'.items
             IN  \A i \in 1..Len(new) : Pair(new[i]) = Pair(old[Min2(i, Len(old))])]_vars

\* a recomputed plan of 2025-01 and 2025-02 in which the earlier month carries
\* the adjustment and the later month none
C6_Witness ==
    /\ lastOp = Call("recomputeCapacityPeriod", TRUE)
    /\ Len(PlanItems) = 2
    /\ PlanItems[1].month = M2025_01 /\ PlanItems[1].adjustment = <<-2>>
    /\ PlanItems[2].month = M2025_02 /\ PlanItems[2].adjustment = <<>>

\* C7: for a plan stored in chronological order, recomputeCapacityPeriod in
\* DEFAULT mode leaves the (capacity, adjustment) pairs below
\* min(oldLength, newLength) as they were and in order, gives every extra
\* month the pair of the last old entry, and over a well-formed range keeps
\* exactly newLength entries.
C7_DefaultPadsAndTruncates ==
    [][\A r \in Ranges :
          (/\ lastOp' = Call("recomputeCapacityPeriod", TRUE)
           /\ Chronological(PlanItems)
           /\ recomputeCapacityPeriod(r[1], r[2], DEFAULT))
          => LET old == PlanItems
                 new == capacityPlan'.items
             IN  /\ \A i \in 1..Len(new) : Pair(new[i]) = Pair(old[Min2(i, Len(old))])
                 /\ (WellFormedKey(r[1]) /\ WellFormedKey(r[2]))
                       => Len(new) = MonthIndex(r[2]) - MonthIndex(r[1]) + 1]_vars

\* a two-entry plan recomputed to three months: the first pair kept, the
\* second pair (with its adjustment) kept and repeated in the extra month
C7_Witness ==
    /\ lastOp = Call("recomputeCapacityPeriod", TRUE)
    /\ Len(PlanItems) = 3
    /\ Pair(PlanItems[1]) = <<2, <<>>>>
    /\ Pair(PlanItems[2]) = <<1, <<-2>>>>
    /\ Pair(PlanItems[3]) = <<1, <<-2>>>>

\* C8: after a successful recomputeCapacityPeriod(start, end, mode) over
\* well-formed bounds, the plan has monthDistance(start, end) + 1 entries whose
\* months are the consecutive calendar months from start to end, so that
\* earliestCapacityMonth = start and latestCapacityMonth = end.
C8_RecomputeSpansTheRange ==
    [][\A r \in Ranges, mode \in Modes :
          (/\ WellFormedKey(r[1]) /\ WellFormedKey(r[2])
           /\ recomputeCapacityPeriod(r[1], r[2], mode)
           /\ lastOp'.ok)
          => LET new == capacityPlan'.items
             IN  /\ Len(new) = MonthIndex(r[2]) - MonthIndex(r[1]) + 1
                 /\ \A i \in 1..Len(new) :
                       new[i].month = KeyOfIndex(MonthIndex(r[1]) + i - 1)
                 /\ earliestCapacityMonth' = <<r[1]>>
                 /\ latestCapacityMonth' = <<r[2]>>]_vars

\* a recomputed plan whose months are 1901-01 and 1901-02
C8_Witness ==
    /\ lastOp = Call("recomputeCapacityPeriod", TRUE)
    /\ Len(PlanItems) = 2
    /\ PlanItems[1].month = <<"1", "9", "0", "1", "-", "0", "1">>
    /\ PlanItems[2].month = <<"1", "9", "0", "1", "-", "0", "2">>

\* C9: recomputeCapacityPeriod fails when start is after end, when a bound is
\* not a well-formed key, and when there is no capacity entry; the plan and
\* the dirty flag are then as they were.
C9_RecomputeRejectsBadRange ==
    [][\A r \in Ranges, mode \in Modes :
          (/\ recomputeCapacityPeriod(r[1], r[2], mode)
           /\ \/ ~WellFormedKey(r[1]) \/ ~WellFormedKey(r[2])
              \/ ~hasCapacity
              \/ MonthIndex(r[1]) > MonthIndex(r[2]))
          => (~lastOp'.ok /\ UNCHANGED <<capacityPlan, financeDirty>>)]_vars

\* a recompute that returned and left the plan empty
C9_Witness ==
    /\ lastOp = Call("recomputeCapacityPeriod", TRUE)
    /\ capacityPlan = Defined(<<>>)

\* C10: generateCapacityPlan(months, amount, 0, start) with months >= 1 and a
\* start that normalises replaces the plan with `months` entries of capacity
\* round(amount) and no adjustment, whose keys are the consecutive months
\* from the UTC month of the normalised start, whatever the host's time zone.
C10_GeneratedPlanFromUTCStart ==
    [][\A n \in GenMonths, amt \in GenAmounts, st \in GenStarts, now \in NowDates :
          (/\ n >= 1
           /\ ~IsNaN(normalizeStartDate(st, now))
           /\ generateCapacityPlan(n, amt, Frac(0, 1), st, now))
          => LET start == Val(normalizeStartDate(st, now))
                 new == capacityPlan'.items
             IN  /\ lastOp'.ok
                 /\ capacityPlan'.defined
                 /\ Len(new) = n
                 /\ \A i \in 1..Len(new) :
                       /\ new[i].capacity = MathRound(amt)
                       /\ new[i].adjustment = <<>>
                       /\ new[i].month = KeyOfIndex(start + i - 1)]_vars

\* on a host behind UTC, a plan generated from 2025-01 that begins at 2024-12
C10_Witness ==
    /\ tz = "behindUTC"
    /\ lastOp = Call("generateCapacityPlan", TRUE)
    /\ Len(PlanItems) = 2
    /\ PlanItems[1].month = M2024_12

\* C11: with growthRate > 0, entry i (from 0) of a generated plan has capacity
\* round(amount * (1 + growthRate)^i): the compounding runs on the unrounded
\* value and only the stored capacity is rounded; with growthRate = 0 every
\* entry has capacity round(amount).
C11_GrowthCompoundsUnrounded ==
    [][\A n \in GenMonths, amt \in GenAmounts, g \in GenGrowth, st \in GenStarts,
          now \in NowDates :
          (/\ lastOp' = Call("generateCapacityPlan", TRUE)
           /\ generateCapacityPlan(n, amt, g, st, now))
          => LET new == capacityPlan'.items
             IN  /\ Len(new) = n
                 /\ \A i \in 1..Len(new) :
                       new[i].capacity =
                          IF g.n > 0
                          THEN MathRound(Frac(amt.n * Power(g.d + g.n, i - 1),
                                              amt.d * Power(g.d, i - 1)))
                          ELSE MathRound(amt)]_vars

\* a plan generated from 1.5 units growing by 100% a month: capacities 2, 3
C11_Witness ==
    /\ lastOp = Call("generateCapacityPlan", TRUE)
    /\ Len(PlanItems) = 2
    /\ PlanItems[1].capacity = 2
    /\ PlanItems[2].capacity = 3

\* C12: normalizeCapacityUnits(amount) with amount >= 0 fails on a plan of no
\* entries; on a plan of one entry it returns and leaves the plan, the dirty
\* flag and last_update alone; on a plan of two or more entries it sets every
\* capacity to amount and keeps every month and adjustment, the number of
\* entries and their order.
C12_NormalizeCapacityUnits ==
    [][\A amt \in NormalizeAmounts :
          (/\ lastOp'.op = "normalizeCapacityUnits"
           /\ amt >= 0
           /\ normalizeCapacityUnits(amt))
          => LET old == PlanItems
                 new == capacityPlan'.items
             IN  IF Len(old) = 0
                 THEN ~lastOp'.ok /\ UNCHANGED capacityPlan
                 ELSE IF Len(old) = 1
                 THEN lastOp'.ok /\ UNCHANGED <<capacityPlan, financeDirty, last_update>>
                 ELSE /\ lastOp'.ok
                      /\ Len(new) = Len(old)
                      /\ \A i \in 1..Len(old) :
                            /\ new[i].capacity = amt
                            /\ new[i].month = old[i].month
                            /\ new[i].adjustment = old[i].adjustment]_vars

\* a normalised plan of two entries: both capacities 2, the second entry's
\* adjustment still in place
C12_Witness ==
    /\ lastOp = Call("normalizeCapacityUnits", TRUE)
    /\ Len(PlanItems) = 2
    /\ PlanItems[1].capacity = 2 /\ PlanItems[2].capacity = 2
    /\ PlanItems[2].adjustment = <<-2>>

\* the plan has an entry for the month
HasMonth(plan, m) == \E i \in 1..Len(plan) : plan[i].month = m

\* C13: for a well-formed key, addCapacity fails exactly when the month has an
\* entry and otherwise appends one entry; updateCapacityUnits,
\* updateCapacityAdjustment and removeCapacity fail exactly when the month has
\* no entry and otherwise change that month's capacity, that month's
\* adjustment, or remove that one entry; all other entries stay as they were.
C13_EntryOperations ==
    [][\A m \in Keys :
          WellFormedKey(m) =>
             LET old == PlanItems
                 new == capacityPlan'.items
             IN  /\ \A u \in AddUnits, a \in Adjustments :
                       (lastOp'.op = "addCapacity" /\ addCapacity(m, u, a))
                       => IF HasMonth(old, m)
                          THEN ~lastOp'.ok /\ UNCHANGED capacityPlan
                          ELSE lastOp'.ok /\ new = Append(old, Entry(m, u, a))
                 /\ \A u \in UpdateUnits :
                       (lastOp'.op = "updateCapacityUnits" /\ updateCapacityUnits(m, u))
                       => IF ~HasMonth(old, m)
                          THEN ~lastOp'.ok /\ UNCHANGED capacityPlan
                          ELSE /\ lastOp'.ok
                               /\ \E i \in 1..Len(old) :
                                     /\ old[i].month = m
                                     /\ new = [old EXCEPT ![i].capacity = u]
                 /\ \A a \in Adjustments :
                       (lastOp'.op = "updateCapacityAdjustment"
                        /\ updateCapacityAdjustment(m, a))
                       => IF ~HasMonth(old, m)
                          THEN ~lastOp'.ok /\ UNCHANGED capacityPlan
                          ELSE /\ lastOp'.ok
                               /\ \E i \in 1..Len(old) :
                                     /\ old[i].month = m
                                     /\ new = [old EXCEPT ![i].adjustment = a]
                 /\ (lastOp'.op = "removeCapacity" /\ removeCapacity(m))
                       => IF ~HasMonth(old, m)
                          THEN ~lastOp'.ok /\ UNCHANGED capacityPlan
                          ELSE /\ lastOp'.ok
                               /\ \E i \in 1..Len(old) :
                                     /\ old[i].month = m
                                     /\ new = SubSeq(old, 1, i - 1)
                                              \o SubSeq(old, i + 1, Len(old))]_vars

\* removeCapacity has taken 2025-01 out of a plan and left 2025-02 with its
\* capacity and adjustment
C13_Witness ==
    /\ lastOp = Call("removeCapacity", TRUE)
    /\ PlanItems = <<Entry(M2025_02, 1, <<-2>>)>>

\* C14: the unit cost and the subtotal of every COS item are in the currency
\* of the subscription's current rate.
C14_COSInRateCurrency ==
    \A i \in 1..Len(cos) :
        /\ cos[i].unitCost.cur = rate.amount.cur
        /\ cos[i].subtotal.cur = rate.amount.cur

\* setRate has installed a rate in another currency than the stored COS items
C14_Witness ==
    /\ lastOp = Call("setRate", TRUE)
    /\ Len(cos) > 0
    /\ \A i \in 1..Len(cos) : cos[i].unitCost.cur # rate.amount.cur

\* C15: every COS item of the list has quantity > 0 and
\* subtotal = unitCost * quantity.
C15_COSItemsConsistent ==
    \A i \in 1..Len(cos) :
        /\ cos[i].quantity > 0
        /\ cos[i].subtotal = MoneyMultiply(cos[i].unitCost, cos[i].quantity)

\* setCOS has stored an item of quantity 0 whose subtotal is not zero
C15_Witness ==
    /\ lastOp = Call("setCOS", TRUE)
    /\ \E i \in 1..Len(cos) : cos[i].quantity = 0 /\ cos[i].subtotal.amt # 0

\* capacity + adjustment of an entry, an absent adjustment counting as 0
UnitsOfEntry(s) == IF s.adjustment = <<>> THEN s.capacity ELSE s.capacity + s.adjustment[1]

\* the sum of the subtotals' amounts
RECURSIVE SubtotalAmounts(_)
SubtotalAmounts(items) ==
    IF items = <<>> THEN 0 ELSE items[1].subtotal.amt + SubtotalAmounts(Tail(items))

\* some subtotal is in another currency than the rate, so that no sum exists
MixedCurrencies == \E i \in 1..Len(cos) : cos[i].subtotal.cur # rate.amount.cur

\* C16: for a well-formed month key, getRevenue(month) is the rate amount
\* times (capacity + adjustment) of the month's entry, getCOS(month) is the
\* sum of all COS subtotals times the same units, both are zero money in the
\* rate's currency when the plan has no entry for the month, and
\* getProfit(month) = getRevenue(month) - getCOS(month).  (Where the
\* subtotals have no sum in the rate's currency, getCOS and getProfit throw.)
C16_MonthlyFigures ==
    \A m \in Keys :
        WellFormedKey(m) =>
           LET cur == rate.amount.cur
           IN  IF ~HasMonth(PlanItems, m)
               THEN /\ getRevenue(m) = <<Money(0, cur)>>
                    /\ getCOS(m) = <<Money(0, cur)>>
                    /\ getProfit(m) = <<Money(0, cur)>>
               ELSE \E i \in 1..Len(PlanItems) :
                       /\ PlanItems[i].month = m
                       /\ LET units == UnitsOfEntry(PlanItems[i])
                              revenue == rate.amount.amt * units
                              cost == SubtotalAmounts(cos) * units
                          IN  /\ getRevenue(m) = <<Money(revenue, cur)>>
                              /\ IF MixedCurrencies
                                 THEN Threw(getCOS(m)) /\ Threw(getProfit(m))
                                 ELSE /\ getCOS(m) = <<Money(cost, cur)>>
                                      /\ getProfit(m) = <<Money(revenue - cost, cur)>>

\* getProfit has been read for 2025-01: one unit at 2.00 against a COS
\* subtotal of 3.00, a profit of -1.00
C16_Witness ==
    /\ lastOp = Call("getProfit", TRUE)
    /\ HasMonth(PlanItems, M2025_01)
    /\ getRevenue(M2025_01) = <<Money(200, "PHP")>>
    /\ getCOS(M2025_01) = <<Money(300, "PHP")>>
    /\ getProfit(M2025_01) = <<Money(-100, "PHP")>>

RECURSIVE TotalUnits(_)
TotalUnits(plan) ==
    IF plan = <<>> THEN 0 ELSE UnitsOfEntry(plan[1]) + TotalUnits(Tail(plan))

\* C18: gross revenue is the sum over all capacity entries of the rate amount
\* times (capacity + adjustment); gross cost is the sum of all COS subtotals
\* times the total of (capacity + adjustment); gross profit is their
\* difference; and all three are zero money in the rate's currency when the
\* plan is empty.
C18_AggregateTotals ==
    LET cur == rate.amount.cur
        revenue == rate.amount.amt * TotalUnits(PlanItems)
        cost == SubtotalAmounts(cos) * TotalUnits(PlanItems)
    IN  /\ computeGrossRevenue = <<Money(revenue, cur)>>
        /\ PlanItems = <<>> \/ ~MixedCurrencies =>
              /\ computeGrossCOS = <<Money(cost, cur)>>
              /\ computeGrossProfit = <<Money(revenue - cost, cur)>>
        /\ PlanItems = <<>> =>
              /\ computeGrossRevenue = <<Money(0, cur)>>
              /\ computeGrossCOS = <<Money(0, cur)>>
              /\ computeGrossProfit = <<Money(0, cur)>>

\* the same totals in the states where every subtotal is in the rate's currency
C18_TotalsInOneCurrency == ~MixedCurrencies => C18_AggregateTotals

\* grossCost has been read on an empty plan and threw
C18_Witness ==
    /\ lastOp = Call("grossCost", FALSE)
    /\ PlanItems = <<>>
    /\ MixedCurrencies

\* the fraction q is the quotient a / b of two amounts, b # 0
IsQuotient(q, a, b) == q[2] > 0 /\ q[1] * b = q[2] * a

\* C19: every snapshot written by a recomputation has net equal to gross in
\* the four rows revenue, cos, profit and income, income equal to profit, a
\* revenue marginRatio of 1 (also when the gross revenue is zero), and cos and
\* profit marginRatio 0 when the gross revenue is zero, else gross COS /
\* gross revenue and gross profit / gross revenue.
C19_SnapshotShape ==
    [][ financeDirty /\ ~financeDirty' =>
           LET f == finance'
               revenue == f.revenue.gross.value.amt
           IN  /\ \A row \in {"revenue", "cos", "profit", "income"} :
                      f[row].net = f[row].gross
               /\ f.income = f.profit
               /\ f.revenue.gross.marginRatio = <<1, 1>>
               /\ IF revenue = 0
                  THEN /\ f.cos.gross.marginRatio = <<0, 1>>
                       /\ f.profit.gross.marginRatio = <<0, 1>>
                  ELSE /\ IsQuotient(f.cos.gross.marginRatio,
                                     f.cos.gross.value.amt, revenue)
                       /\ IsQuotient(f.profit.gross.marginRatio,
                                     f.profit.gross.value.amt, revenue)
      ]_vars

\* a recomputation has written a snapshot with revenue 2.00, COS 3.00 and
\* profit -1.00
C19_Witness ==
    /\ lastOp.op \in AggregateGetters
    /\ lastOp.ok
    /\ ~financeDirty
    /\ finance.revenue.gross = [value |-> Money(200, "PHP"), marginRatio |-> <<1, 1>>]
    /\ finance.cos.net = [value |-> Money(300, "PHP"), marginRatio |-> <<3, 2>>]
    /\ finance.income.net = [value |-> Money(-100, "PHP"), marginRatio |-> <<-1, 2>>]

FinanceAccessors ==
    AggregateGetters \cup AverageGetters \cup {"getRevenue", "getCOS", "getProfit", "getMargin"}

\* what a read of the accessor returns in the current state
AccessorResult(accessor, month) ==
    IF accessor \in AggregateGetters THEN GetterResult(accessor)
    ELSE IF accessor \in AverageGetters THEN AverageResult(accessor)
    ELSE MonthlyResult(accessor, month, <<>>)

\* C20: reading a finance accessor (grossRevenue, grossCost, grossProfit,
\* netRevenue, netProfit, averageMonthlyRevenue, averageMonthlyProfit,
\* getRevenue, getCOS, getProfit, getMargin) twice with no mutator call in
\* between returns the same result both times, whatever the dirty flag was
\* before the first read: the state a read leaves behind gives the same
\* result as the state it started from.
C20_RepeatedReadIsIdentical ==
    [][ lastOp'.op \in FinanceAccessors =>
           \A accessor \in FinanceAccessors :
               accessor = lastOp'.op =>
                  \A m \in (IF accessor \in MonthlyAccessors THEN Keys ELSE {M2025_01}) :
                      AccessorResult(accessor, m)' = AccessorResult(accessor, m)
      ]_vars

\* after one successful mutator, two reads, the second of them
\* averageMonthlyRevenue over a two-month plan with 2.00 of revenue
C20_Witness ==
    /\ calls = 3
    /\ last_update = 1
    /\ lastOp = Call("averageMonthlyRevenue", TRUE)
    /\ ~financeDirty
    /\ Len(PlanItems) = 2
    /\ AverageResult("averageMonthlyRevenue") = <<[amt |-> Frac(100, 1), cur |-> "PHP"]>>

\* what a read of the getter returns on the restored entity, whose flag is
\* `dirty` and whose stored snapshot is `snapshot`: its rate, COS list and plan
\* are those of x (the conjuncts before say so), hence so is what a
\* recomputation yields
RestoredResult(getter, dirty, snapshot) ==
    IF dirty
    THEN IF Threw(ComputedFinance) THEN <<>>
         ELSE <<SnapshotValue(getter, ComputedFinance[1])>>
    ELSE <<SnapshotValue(getter, snapshot)>>

EntryAtRank(plan, k) ==
    LET Before(j, i) == StrLess(plan[j].month, plan[i].month)
                        \/ (plan[j].month = plan[i].month /\ j < i)
    IN  plan[CHOOSE i \in 1..Len(plan) :
                Cardinality({j \in 1..Len(plan) : Before(j, i)}) = k]

\* the sum over i = 0 .. n - 1 of the units of the entry at place i mod length
RECURSIVE CycledUnits(_, _)
CycledUnits(plan, n) ==
    IF n = 0 THEN 0
    ELSE CycledUnits(plan, n - 1) + UnitsOfEntry(EntryAtRank(plan, (n - 1) % Len(plan)))

\* C22: forecastRevenue(n) fails unless n is a positive integer; for a
\* positive integer n it returns zero money if the plan is empty, and
\* otherwise the sum for i = 0 .. n-1 of the rate amount times the effective
\* units of sorted[i mod planLength], sorted being the plan by month
\* ascending whatever the storage order; getARR(m) = forecastRevenue(m), m
\* defaulting to 12; and the call changes no state.
C22_ForecastCycles ==
    [][ lastOp'.op \in ForecastAccessors =>
           /\ UNCHANGED <<rate, cos, capacityPlan, finance, financeDirty, last_update, ident>>
           /\ \A x \in ForecastMonths :
                 /\ forecastRevenue(x) =
                       IF x.n % x.d # 0 \/ x.n <= 0 THEN <<>>
                       ELSE IF PlanItems = <<>> THEN <<Money(0, rate.amount.cur)>>
                       ELSE <<Money(rate.amount.amt * CycledUnits(PlanItems, x.n \div x.d),
                                    rate.amount.cur)>>
                 /\ getARR(<<x>>) = forecastRevenue(x)
           /\ getARR(<<>>) = forecastRevenue(Frac(12, 1))
      ]_vars

\* forecastRevenue has returned on a plan stored as 2025-02, 2025-01 whose
\* two months differ in units
C22_Witness ==
    /\ lastOp = Call("forecastRevenue", TRUE)
    /\ Len(PlanItems) = 2
    /\ StrLess(PlanItems[2].month, PlanItems[1].month)
    /\ UnitsOfEntry(PlanItems[1]) # UnitsOfEntry(PlanItems[2])
    /\ forecastRevenue(Frac(3, 1)) =
          <<Money(rate.amount.amt * (2 * UnitsOfEntry(PlanItems[2]) + UnitsOfEntry(PlanItems[1])),
                  rate.amount.cur)>>

\* what C23 says of a step from the plan `old` to the plan `new` by
\* applyTrial(months): `new` is `old` ordered by month ascending; on the
\* first min(months, length) entries the adjustment is (old adjustment or 0)
\* minus the capacity, the capacity is kept and the effective units are the
\* old adjustment (zero when there was none); the later entries are unchanged
TrialOutcome(old, new, months) ==
    /\ Len(new) = Len(old)
    /\ \A k \in 1..Len(old) :
          LET before == EntryAtRank(old, k - 1)
              oldAdjustment == IF before.adjustment = <<>> THEN 0 ELSE before.adjustment[1]
          IN  IF k <= months
              THEN /\ new[k].month = before.month
                   /\ new[k].capacity = before.capacity
                   /\ new[k].adjustment = <<oldAdjustment - before.capacity>>
                   /\ UnitsOfEntry(new[k]) = oldAdjustment
              ELSE new[k] = before

EvenlySpread(T, new) ==
    LET L == Len(new)
    IN  /\ \A i \in 1..L :
              /\ new[i].capacity = (T \div L) + (IF i <= T % L THEN 1 ELSE 0)
              /\ new[i].adjustment = <<>>
        /\ \A i \in 1..(L - 1) : new[i].capacity >= new[i + 1].capacity
        /\ \A i, j \in 1..L : new[i].capacity - new[j].capacity \in {-1, 0, 1}

\* C25: in DISTRIBUTE mode with total T = sum of old (capacity + adjustment)
\* and new length L, the new plan has floor(T / L) in every month plus 1 in
\* exactly the first (T mod L) months in chronological order, capacities
\* non-increasing and differing by at most 1, and no adjustment.
C25_DistributeSpreadsEvenly ==
    [][ lastOp' = Call("recomputeCapacityPeriod", TRUE) =>
           \A r \in Ranges :
               (/\ WellFormedKey(r[1]) /\ WellFormedKey(r[2])
                /\ recomputeCapacityPeriod(r[1], r[2], DISTRIBUTE))
               => /\ PlanItems' # <<>>
                  /\ EvenlySpread(TotalUnits(PlanItems), PlanItems')
      ]_vars

\* the same for the totals that are not negative
C25_NonNegativeTotals ==
    [][ lastOp' = Call("recomputeCapacityPeriod", TRUE) /\ TotalUnits(PlanItems) >= 0 =>
           \A r \in Ranges :
               (/\ WellFormedKey(r[1]) /\ WellFormedKey(r[2])
                /\ recomputeCapacityPeriod(r[1], r[2], DISTRIBUTE))
               => /\ PlanItems' # <<>>
                  /\ EvenlySpread(TotalUnits(PlanItems), PlanItems')
      ]_vars

\* a total of -1 has been distributed over two months as -1 and -1
C25_Witness ==
    /\ lastOp = Call("recomputeCapacityPeriod", TRUE)
    /\ Len(PlanItems) = 2
    /\ PlanItems[1].capacity = -1
    /\ PlanItems[2].capacity = -1
    /\ PlanItems[1].adjustment = <<>> /\ PlanItems[2].adjustment = <<>>

\* the sum of a monthly accessor over the months of the first n entries of
\* the plan, from zero in the rate's currency; <<>> if a read throws
RECURSIVE MonthlySum(_, _)
MonthlySum(accessor, n) ==
    IF n = 0 THEN <<Money(0, rate.amount.cur)>>
    ELSE LET rest == MonthlySum(accessor, n - 1)
             this == MonthlyResult(accessor, PlanItems[n].month, <<>>)
         IN  IF Threw(rest) \/ Threw(this) THEN <<>>
             ELSE <<Money(rest[1].amt + this[1].amt, rate.amount.cur)>>

NoDuplicateMonths ==
    \A i, j \in 1..Len(PlanItems) : i # j => PlanItems[i].month # PlanItems[j].month

\* C26: for every plan without duplicate months, gross revenue is the sum of
\* getRevenue(m) over the plan's months, gross cost the sum of getCOS(m) and
\* gross profit the sum of getProfit(m).
C26_AggregatesAgreeWithMonths ==
    NoDuplicateMonths =>
        /\ computeGrossRevenue = MonthlySum("getRevenue", Len(PlanItems))
        /\ computeGrossCOS = MonthlySum("getCOS", Len(PlanItems))
        /\ computeGrossProfit = MonthlySum("getProfit", Len(PlanItems))

\* the same in the states where every subtotal is in the rate's currency
C26_AgreementInOneCurrency == ~MixedCurrencies => C26_AggregatesAgreeWithMonths

\* grossProfit has thrown on an entity with a COS item and no month at all
C26_Witness ==
    /\ lastOp = Call("grossProfit", FALSE)
    /\ PlanItems = <<>>
    /\ cos # <<>>
    /\ Threw(computeGrossCOS)
    /\ MonthlySum("getCOS", 0) = <<Money(0, rate.amount.cur)>>

\* C27: recomputeCapacityPeriod is idempotent.  For a non-empty plan, a
\* well-formed range start <= end and either mode, the plan a second call
\* with the same arguments would store is the plan the first call has
\* stored: same months, capacities and adjustments.
C27_RecomputeIsIdempotent ==
    [][ lastOp' = Call("recomputeCapacityPeriod", TRUE) =>
           \A r \in Ranges, mode \in Modes :
               (/\ WellFormedKey(r[1]) /\ WellFormedKey(r[2])
                /\ recomputeCapacityPeriod(r[1], r[2], mode))
               => RecomputedPlan(capacityPlan', r[1], r[2], mode) = <<PlanItems'>>
      ]_vars

\* 2025-01..2025-02 has been recomputed twice in a row in DEFAULT mode over a
\* month that carries an adjustment
C27_Witness ==
    /\ lastOp = Call("recomputeCapacityPeriod", TRUE)
    /\ calls = 3
    /\ last_update = 3
    /\ PlanItems = <<Entry(M2025_01, 1, <<-2>>), Entry(M2025_02, 1, <<-2>>)>>
    /\ RecomputedPlan(capacityPlan, M2025_01, M2025_02, DEFAULT) = <<PlanItems>>

\* C28: at any point, the finance snapshot inside toJSON()'s metadata holds
\* the totals the aggregate accessors would return at that point: the
\* serialized snapshot is never stale relative to the serialized rate, COS
\* list and capacity plan.
C28_SerializedSnapshotIsFresh ==
    \A g \in AggregateGetters :
        ~Threw(GetterResult(g)) =>
            SnapshotValue(g, toJSON.metadata.finance) = SerializedMoney(GetterResult(g)[1])

\* toJSON has been called on an entity with a month of capacity whose stored
\* snapshot still shows zero revenue
C28_Witness ==
    /\ lastOp = Call("toJSON", TRUE)
    /\ financeDirty
    /\ PlanItems # <<>>
    /\ toJSON.metadata.capacityPlan = capacityPlan
    /\ toJSON.metadata.finance.revenue.gross.value.amount = 0
    /\ GetterResult("grossRevenue") = <<Money(200, "PHP")>>

\* C29: in every state reachable through addCOS, pushCOS, updateCOS, setCOS
\* and removeCOS no two COS items share an id, so that updateCOS(id, ...) and
\* removeCOS(id) act on the only item with that id.
C29_COSIdsAreUnique ==
    \A i, j \in 1..Len(cos) : i # j => cos[i].id # cos[j].id

\* pushCOS has stored a second item under an id the list already holds
C29_Witness ==
    /\ lastOp = Call("pushCOS", TRUE)
    /\ Len(cos) >= 2
    /\ cos[Len(cos)].id = "c2"
    /\ \E i \in 1..(Len(cos) - 1) : cos[i].id = "c2"

RateMutators == {"setRate", "setRateAmount", "setRateUnit"}

COSMutators == {"addCOS", "pushCOS", "updateCOS", "setCOS", "removeCOS", "clearCostBreakdown"}

CapacityMutators == Mutators \ (RateMutators \cup COSMutators)

PerMonthAccessors == MonthlyAccessors \cup {"getMRR"}

\* C30: frame.  A call of a capacity mutator leaves the rate and the COS list
\* as they were, a call of a COS mutator the rate and the capacity plan, a call
\* of a rate mutator the COS list and the capacity plan; none of them changes
\* id, slug or the creation timestamp; and a call of getRevenue, getCOS,
\* getProfit, getMargin, getNetRevenue, getNetProfit or getMRR, returning or
\* throwing, changes no field at all, the dirty flag and the cached snapshot
\* included.
C30_Frame ==
    [][ /\ lastOp'.op \in CapacityMutators => rate' = rate /\ cos' = cos
        /\ lastOp'.op \in COSMutators => rate' = rate /\ capacityPlan' = capacityPlan
        /\ lastOp'.op \in RateMutators => cos' = cos /\ capacityPlan' = capacityPlan
        /\ lastOp'.op \in Mutators =>
              /\ ident'.id = ident.id
              /\ ident'.slug = ident.slug
              /\ ident'.timestamp = ident.timestamp
        /\ lastOp'.op \in PerMonthAccessors =>
              UNCHANGED <<rate, cos, capacityPlan, finance, financeDirty, last_update, ident>>
      ]_vars

\* a per-month accessor has returned on an entity whose plan has been written
\* and whose snapshot is current: the flag is still clear
C30_Witness ==
    /\ lastOp.op \in PerMonthAccessors
    /\ lastOp.ok
    /\ ~financeDirty
    /\ finance = ComputedFinance[1]
    /\ PlanItems # <<>>
    /\ last_update = 1

====
